---- MODULE Spec2Model ----
(***************************************************************************)
(* A model of src/index.js: the daily e-mail agent.  runDailyCheck         *)
(* authorizes against the mail provider, fetches today's messages, asks    *)
(* the generative-text service for events, formats a summary and sends it  *)
(* through the messaging provider.  The process starts one run at once     *)
(* and one more at every daily trigger; runs share only the token file.    *)
(*                                                                         *)
(* JavaScript strings are modelled as sequences of one-character strings,  *)
(* so that the regular-expression replaces, trim, JSON.parse and the       *)
(* template literal of formatSummary are computed character by character. *)
(* A character outside ASCII, and the backquote, which a TLA+ string      *)
(* cannot hold, is written by its code point ("U+2014", "U+0060").        *)
(***************************************************************************)
EXTENDS Integers, Sequences, FiniteSets, TLC

(***************************************************************************)
(* String literals of the source.                                          *)
(***************************************************************************)
NO_EVENTS_MSG ==
    <<"U+1F4ED", " ", "Y", "o", "u", " ", "h", "a", "v", "e", " ", "n", "o",
      " ", "e", "x", "a", "m", "s", " ", "o", "r", " ", "a", "p", "p", "o",
      "i", "n", "t", "m", "e", "n", "t", "s", " ", "s", "c", "h", "e", "d",
      "u", "l", "e", "d", " ", "f", "o", "r", " ", "t", "o", "d", "a", "y",
      ".">>
HEADER ==
    <<"U+1F4C5", " ", "H", "e", "r", "e", "'", "s", " ", "y", "o", "u", "r",
      " ", "s", "c", "h", "e", "d", "u", "l", "e", " ", "f", "o", "r", " ",
      "t", "o", "d", "a", "y", ":", "\n">>
T_TIME ==
    <<"\n", " ", " ", " ", "U+1F552", " ", "T", "i", "m", "e", ":", " ">>
T_LOCATION ==
    <<"\n", " ", " ", " ", "U+1F4CD", " ", "L", "o", "c", "a", "t", "i", "o",
      "n", ":", " ">>
T_NOTES ==
    <<"\n", " ", " ", " ", "U+1F4DD", " ", "N", "o", "t", "e", "s", ":", " ">>
T_DASH ==
    <<" ", "U+2014", " ">>
NO_TITLE ==
    <<"N", "o", " ", "t", "i", "t", "l", "e">>
NOT_SPECIFIED ==
    <<"N", "o", "t", " ", "s", "p", "e", "c", "i", "f", "i", "e", "d">>
NONE ==
    <<"N", "o", "n", "e">>
K_type ==
    <<"t", "y", "p", "e">>
K_title ==
    <<"t", "i", "t", "l", "e">>
K_time ==
    <<"t", "i", "m", "e">>
K_location ==
    <<"l", "o", "c", "a", "t", "i", "o", "n">>
K_notes ==
    <<"n", "o", "t", "e", "s">>
K_length ==
    <<"l", "e", "n", "g", "t", "h">>
FENCE ==
    <<"U+0060", "U+0060", "U+0060">>
FENCE_JSON ==
    <<"U+0060", "U+0060", "U+0060", "j", "s", "o", "n">>

(***************************************************************************)
(* What the JavaScript runtime prints for values that are not strings.     *)
(***************************************************************************)
S_undefined ==
    <<"u", "n", "d", "e", "f", "i", "n", "e", "d">>
S_null ==
    <<"n", "u", "l", "l">>
S_true ==
    <<"t", "r", "u", "e">>
S_false ==
    <<"f", "a", "l", "s", "e">>
S_object ==
    <<"[", "o", "b", "j", "e", "c", "t", " ", "O", "b", "j", "e", "c", "t",
      "]">>

(***************************************************************************)
(* JavaScript values.  An object is a function from its keys to values.    *)
(***************************************************************************)
JUndef == [t |-> "undef"]
JNull == [t |-> "null"]
JBool(b) == [t |-> "bool", b |-> b]
JNum(n) == [t |-> "num", n |-> n]
JStr(s) == [t |-> "str", s |-> s]
JArr(a) == [t |-> "arr", a |-> a]
JObj(m) == [t |-> "obj", m |-> m]
EmptyMap == [k \in {} |-> JNull]

Digits == <<"0", "1", "2", "3", "4", "5", "6", "7", "8", "9">>
DigitSet == {Digits[k] : k \in 1..10}
DigitVal(c) == (CHOOSE k \in 1..10 : Digits[k] = c) - 1

RECURSIVE NatToStr(_)
NatToStr(n) ==
    IF n < 10 THEN <<Digits[n + 1]>>
    ELSE NatToStr(n \div 10) \o <<Digits[(n % 10) + 1]>>

NumToStr(n) == IF n < 0 THEN <<"-">> \o NatToStr(-n) ELSE NatToStr(n)

(***************************************************************************)
(* String.prototype.replace with a global regular expression whose pattern *)
(* is a literal: every match is removed, scanning left to right.  With the *)
(* i flag a pattern letter also matches its upper-case form.               *)
(***************************************************************************)
UpperOf(c) ==
    CASE c = "j" -> "J"
      [] c = "s" -> "S"
      [] c = "o" -> "O"
      [] c = "n" -> "N"
      [] OTHER -> c

MatchAt(s, i, pat, ci) ==
    /\ i + Len(pat) - 1 <= Len(s)
    /\ \A k \in 1..Len(pat) :
          \/ s[i + k - 1] = pat[k]
          \/ ci /\ s[i + k - 1] = UpperOf(pat[k])

\* The scan of s[lo..hi], entered with `skip` characters of a match still
\* to be dropped: what it keeps, and the count it leaves to the right.  A
\* range is scanned as its left half, then its right half.
RECURSIVE RemoveScan(_, _, _, _, _, _)
RemoveScan(s, lo, hi, skip, pat, ci) ==
    IF lo > hi THEN [out |-> <<>>, skip |-> skip]
    ELSE IF lo = hi
    THEN IF skip > 0 THEN [out |-> <<>>, skip |-> skip - 1]
         ELSE IF MatchAt(s, lo, pat, ci)
              THEN [out |-> <<>>, skip |-> Len(pat) - 1]
         ELSE [out |-> <<s[lo]>>, skip |-> 0]
    ELSE LET mid == (lo + hi) \div 2
             a == RemoveScan(s, lo, mid, skip, pat, ci)
             b == RemoveScan(s, mid + 1, hi, a.skip, pat, ci)
         IN  [out |-> a.out \o b.out, skip |-> b.skip]

RemoveAll(s, pat, ci) == RemoveScan(s, 1, Len(s), 0, pat, ci).out

(***************************************************************************)
(* String.prototype.trim.                                                  *)
(***************************************************************************)
WhiteSpace == {" ", "\n", "\t", "\r"}

RECURSIVE TrimLeft(_)
TrimLeft(s) ==
    IF s # <<>> /\ Head(s) \in WhiteSpace THEN TrimLeft(Tail(s)) ELSE s

RECURSIVE TrimRight(_)
TrimRight(s) ==
    IF s # <<>> /\ s[Len(s)] \in WhiteSpace
    THEN TrimRight(SubSeq(s, 1, Len(s) - 1))
    ELSE s

Trim(s) == TrimRight(TrimLeft(s))

(***************************************************************************)
(* JSON.parse, by recursive descent over the characters.  A parse step     *)
(* returns whether it succeeded, the value and the next position.  The     *)
(* texts of this model hold no fraction, exponent or \u escape.            *)
(***************************************************************************)
PFail(i) == [ok |-> FALSE, v |-> JUndef, i |-> i]
POk(v, i) == [ok |-> TRUE, v |-> v, i |-> i]

RECURSIVE SkipWs(_, _)
SkipWs(s, i) ==
    IF i <= Len(s) /\ s[i] \in WhiteSpace THEN SkipWs(s, i + 1) ELSE i

ParseLiteral(s, i, word, v) ==
    IF MatchAt(s, i, word, FALSE) THEN POk(v, i + Len(word)) ELSE PFail(i)

Unescape(c) ==
    CASE c = "n" -> "\n"
      [] c = "t" -> "\t"
      [] c = "r" -> "\r"
      [] OTHER -> c

RECURSIVE ScanString(_, _, _)
ScanString(s, j, acc) ==
    IF j > Len(s) THEN PFail(j)
    ELSE IF s[j] = "\"" THEN POk(JStr(acc), j + 1)
    ELSE IF s[j] \in {"\n", "\t", "\r"} THEN PFail(j)
    ELSE IF s[j] = "\\"
         THEN IF j + 1 <= Len(s) /\ s[j + 1] \in {"\"", "\\", "/", "n", "t", "r"}
              THEN ScanString(s, j + 2, Append(acc, Unescape(s[j + 1])))
              ELSE PFail(j)
    ELSE ScanString(s, j + 1, Append(acc, s[j]))

RECURSIVE ScanDigits(_, _, _)
ScanDigits(s, j, acc) ==
    IF j <= Len(s) /\ s[j] \in DigitSet
    THEN ScanDigits(s, j + 1, 10 * acc + DigitVal(s[j]))
    ELSE [n |-> acc, i |-> j]

ParseNat(s, i) ==
    IF i > Len(s) \/ s[i] \notin DigitSet THEN PFail(i)
    ELSE IF s[i] = "0" THEN POk(JNum(0), i + 1)
    ELSE LET d == ScanDigits(s, i, 0) IN POk(JNum(d.n), d.i)

ParseNumber(s, i) ==
    IF s[i] = "-"
    THEN LET r == ParseNat(s, i + 1)
         IN  IF r.ok THEN POk(JNum(-r.v.n), r.i) ELSE r
    ELSE ParseNat(s, i)

RECURSIVE ParseValue(_, _)
RECURSIVE ParseElems(_, _, _)
RECURSIVE ParseMembers(_, _, _)

ParseValue(s, i0) ==
    LET i == SkipWs(s, i0)
    IN  IF i > Len(s) THEN PFail(i)
        ELSE CASE s[i] = "n" -> ParseLiteral(s, i, S_null, JNull)
               [] s[i] = "t" -> ParseLiteral(s, i, S_true, JBool(TRUE))
               [] s[i] = "f" -> ParseLiteral(s, i, S_false, JBool(FALSE))
               [] s[i] = "\"" -> ScanString(s, i + 1, <<>>)
               [] s[i] = "-" \/ s[i] \in DigitSet -> ParseNumber(s, i)
               [] s[i] = "[" ->
                    LET j == SkipWs(s, i + 1)
                    IN  IF j <= Len(s) /\ s[j] = "]"
                        THEN POk(JArr(<<>>), j + 1)
                        ELSE ParseElems(s, j, <<>>)
               [] s[i] = "{" ->
                    LET j == SkipWs(s, i + 1)
                    IN  IF j <= Len(s) /\ s[j] = "}"
                        THEN POk(JObj(EmptyMap), j + 1)
                        ELSE ParseMembers(s, j, EmptyMap)
               [] OTHER -> PFail(i)

ParseElems(s, i, acc) ==
    LET r == ParseValue(s, i)
    IN  IF ~r.ok THEN r
        ELSE LET j == SkipWs(s, r.i)
             IN  IF j > Len(s) THEN PFail(j)
                 ELSE IF s[j] = "," THEN ParseElems(s, j + 1, Append(acc, r.v))
                 ELSE IF s[j] = "]" THEN POk(JArr(Append(acc, r.v)), j + 1)
                 ELSE PFail(j)

ParseMembers(s, i0, acc) ==
    LET i == SkipWs(s, i0)
    IN  IF i > Len(s) \/ s[i] # "\"" THEN PFail(i)
        ELSE LET k == ScanString(s, i + 1, <<>>)
             IN  IF ~k.ok THEN k
                 ELSE LET c == SkipWs(s, k.i)
                      IN  IF c > Len(s) \/ s[c] # ":" THEN PFail(c)
                          ELSE LET r == ParseValue(s, c + 1)
                               IN  IF ~r.ok THEN r
                                   ELSE LET j == SkipWs(s, r.i)
                                            m == (k.v.s :> r.v) @@ acc
                                        IN  IF j > Len(s) THEN PFail(j)
                                            ELSE IF s[j] = ","
                                                 THEN ParseMembers(s, j + 1, m)
                                            ELSE IF s[j] = "}"
                                                 THEN POk(JObj(m), j + 1)
                                            ELSE PFail(j)

JSONparse(s) ==
    LET r == ParseValue(s, 1)
    IN  IF r.ok /\ SkipWs(s, r.i) > Len(s) THEN r ELSE PFail(r.i)

(***************************************************************************)
(* extractEvents, after the completion text has arrived (lines 135-144):   *)
(* both replaces, trim, JSON.parse; a parse error is caught, the raw text  *)
(* is logged and [] is returned.  The value JSON.parse returns is returned *)
(* as it is, whatever its type.                                            *)
(***************************************************************************)
cleanText(text) ==
    Trim(RemoveAll(RemoveAll(text, FENCE_JSON, TRUE), FENCE, FALSE))

\* extractEvents with a catch block that returns null instead of [].
extractEventsReturnsNull(text) ==
    LET r == JSONparse(cleanText(text))
    IN  IF r.ok THEN [events |-> r.v, caught |-> FALSE]
        ELSE [events |-> JNull, caught |-> TRUE]

extractEvents(text) ==
    LET r == JSONparse(cleanText(text))
    IN  IF r.ok THEN [events |-> r.v, caught |-> FALSE]
        ELSE [events |-> JArr(<<>>), caught |-> TRUE]

(***************************************************************************)
(* The JavaScript operations formatSummary and runDailyCheck apply to the  *)
(* extracted value: truthiness, property reads, string conversion.         *)
(***************************************************************************)
Falsy(v) ==
    \/ v.t \in {"undef", "null"}
    \/ v.t = "bool" /\ ~v.b
    \/ v.t = "num" /\ v.n = 0
    \/ v.t = "str" /\ v.s = <<>>

\* Reading a property of null or undefined throws a TypeError.
Readable(v) == v.t \notin {"undef", "null"}

GetProp(v, key) ==
    CASE v.t = "obj" -> IF key \in DOMAIN v.m THEN v.m[key] ELSE JUndef
      [] v.t = "arr" -> IF key = K_length THEN JNum(Len(v.a)) ELSE JUndef
      [] v.t = "str" -> IF key = K_length THEN JNum(Len(v.s)) ELSE JUndef
      [] OTHER -> JUndef

RECURSIVE JSToString(_)
RECURSIVE JoinElems(_, _)
JSToString(v) ==
    CASE v.t = "undef" -> S_undefined
      [] v.t = "null" -> S_null
      [] v.t = "bool" -> IF v.b THEN S_true ELSE S_false
      [] v.t = "num" -> NumToStr(v.n)
      [] v.t = "str" -> v.s
      [] v.t = "arr" -> JoinElems(v.a, 1)
      [] v.t = "obj" -> S_object

\* Array.prototype.join(","): null and undefined elements give "".
JoinElems(a, i) ==
    IF i > Len(a) THEN <<>>
    ELSE (IF i > 1 THEN <<",">> ELSE <<>>)
         \o (IF Readable(a[i]) THEN JSToString(a[i]) ELSE <<>>)
         \o JoinElems(a, i + 1)

\* x || d inside a template literal.
OrDefault(v, d) == IF Falsy(v) THEN d ELSE JSToString(v)

(***************************************************************************)
(* formatSummary (lines 150-160).  The result is the summary, or thrown    *)
(* when the code raises a TypeError: events.forEach is not a function, or  *)
(* a property of a null element is read.                                   *)
(***************************************************************************)
eventBlock(ev, idx) ==
    <<"\n">> \o NumToStr(idx + 1) \o <<".", " ">>
    \o JSToString(GetProp(ev, K_type)) \o T_DASH
    \o OrDefault(GetProp(ev, K_title), NO_TITLE)
    \o T_TIME \o OrDefault(GetProp(ev, K_time), NOT_SPECIFIED)
    \o T_LOCATION \o OrDefault(GetProp(ev, K_location), NOT_SPECIFIED)
    \o T_NOTES \o OrDefault(GetProp(ev, K_notes), NONE)
    \o <<"\n">>

RECURSIVE forEachBlock(_, _)
forEachBlock(a, i) ==
    IF i > Len(a) THEN <<>> ELSE eventBlock(a[i], i - 1) \o forEachBlock(a, i + 1)

formatSummary(events) ==
    IF Falsy(events) \/ GetProp(events, K_length) = JNum(0)
    THEN [thrown |-> FALSE, summary |-> NO_EVENTS_MSG]
    ELSE IF events.t # "arr" \/ \E i \in 1..Len(events.a) : ~Readable(events.a[i])
    THEN [thrown |-> TRUE, summary |-> <<>>]
    ELSE [thrown |-> FALSE, summary |-> HEADER \o forEachBlock(events.a, 1)]

(***************************************************************************)
(* Date.  An instant is a number of minutes since 1970-01-01T00:00Z; the   *)
(* host's zone is a fixed number of minutes east of UTC.  Civil dates are  *)
(* computed from day numbers in the proleptic Gregorian calendar.          *)
(***************************************************************************)
CivilFromDays(z) ==
    LET zz == z + 719468
        era == zz \div 146097
        doe == zz - era * 146097
        yoe == (doe - doe \div 1460 + doe \div 36524 - doe \div 146096) \div 365
        doy == doe - (365 * yoe + yoe \div 4 - yoe \div 100)
        mp == (5 * doy + 2) \div 153
        d == doy - (153 * mp + 2) \div 5 + 1
        m == IF mp < 10 THEN mp + 3 ELSE mp - 9
        y == yoe + era * 400 + (IF m <= 2 THEN 1 ELSE 0)
    IN  [y |-> y, m |-> m, d |-> d]

DaysFromCivil(y0, m, d) ==
    LET y == IF m <= 2 THEN y0 - 1 ELSE y0
        era == y \div 400
        yoe == y - era * 400
        mp == IF m > 2 THEN m - 3 ELSE m + 9
        doy == (153 * mp + 2) \div 5 + d - 1
        doe == yoe * 365 + yoe \div 4 - yoe \div 100 + doy
    IN  era * 146097 + doe - 719468

\* The fields of an instant in the host's zone (getDate reads .d).
LocalFields(t, off) ==
    LET lt == t + off
    IN  [date |-> CivilFromDays(lt \div 1440), minute |-> lt % 1440]

\* Date.prototype.setDate: the day of the month is replaced in the local
\* fields, which are then normalised; the local time of day is kept.
setDate(t, off, day) ==
    LET f == LocalFields(t, off)
    IN  (DaysFromCivil(f.date.y, f.date.m, 1) + day - 1) * 1440 + f.minute - off

Pad2(n) == IF n < 10 THEN <<"0">> \o NatToStr(n) ELSE NatToStr(n)

Pad4(n) ==
    IF n < 10 THEN <<"0", "0", "0">> \o NatToStr(n)
    ELSE IF n < 100 THEN <<"0", "0">> \o NatToStr(n)
    ELSE IF n < 1000 THEN <<"0">> \o NatToStr(n)
    ELSE NatToStr(n)

\* Date.prototype.toISOString: the UTC fields, YYYY-MM-DDTHH:mm:ss.sssZ.
toISOString(t) ==
    LET c == CivilFromDays(t \div 1440)
        mn == t % 1440
    IN  Pad4(c.y) \o <<"-">> \o Pad2(c.m) \o <<"-">> \o Pad2(c.d) \o <<"T">>
        \o Pad2(mn \div 60) \o <<":">> \o Pad2(mn % 60)
        \o <<":", "0", "0", ".", "0", "0", "0", "Z">>

\* s.split("T")[0]: the characters before the first "T".
RECURSIVE BeforeT(_)
BeforeT(s) ==
    IF s = <<>> \/ Head(s) = "T" THEN <<>> ELSE <<Head(s)>> \o BeforeT(Tail(s))

\* getTodaysEmails, lines 80-85: the after and before values of the query.
dayWindow(t, off) ==
    LET today == t
        tomorrow == setDate(today, off, LocalFields(today, off).date.d + 1)
    IN  [after |-> BeforeT(toISOString(today)),
         before |-> BeforeT(toISOString(tomorrow))]

(***************************************************************************)
(* Bounds of the model.                                                    *)
(***************************************************************************)
\* Daily triggers that fire while the process lives; run 0 is the run the
\* process starts at once (line 199), runs 1..MaxTriggers are line 195's.
MaxTriggers == 1
\* Messages the listing returns (the query caps them at maxResults).
MaxMsgs == 1
\* Event records in an input of formatSummary.
MaxEvents == 2
\* Consecutive days from which the instants of the day window are drawn.
MaxDays == 2

RunIds == 0..MaxTriggers

(***************************************************************************)
(* The environment's inputs.                                               *)
(***************************************************************************)
\* Message payloads the provider returns: a multipart message whose second
\* plain text part is the first that carries data, a single-part message.
HtmlPart == [mimeType |-> "text/html", data |-> "PGI+aGk8L2I+"]
PlainPart == [mimeType |-> "text/plain", data |-> "aGk="]
EmptyPlainPart == [mimeType |-> "text/plain", data |-> ""]
Payloads ==
    { [hasParts |-> TRUE, parts |-> <<HtmlPart, EmptyPlainPart, PlainPart>>, data |-> ""],
      [hasParts |-> FALSE, parts |-> <<>>, data |-> "eW8="] }

\* Buffer.from(data, "base64").toString("utf-8") on the payloads' data.
base64Decode(data) ==
    CASE data = "aGk=" -> "hi"
      [] data = "eW8=" -> "yo"
      [] data = "PGI+aGk8L2I+" -> "<b>hi</b>"
      [] data = "" -> ""

\* What messages.list answers: data.messages is absent when nothing
\* matches, else the identifiers, here each with the payload get returns.
Mailboxes ==
    { [listed |-> FALSE, msgs |-> <<>>] }
    \cup { [listed |-> TRUE, msgs |-> m] :
             m \in UNION { [1..n -> Payloads] : n \in 0..MaxMsgs } }

\* Field values of the event records in the inputs.
V_Exam == <<"E", "x", "a", "m">>
V_Mid == <<"M", "i", "d">>
V_Ten == <<"1", "0">>
V_R5 == <<"R", "5">>
V_Bring == <<"b", "r", "i", "n", "g">>
V_Fenced == <<"a", "U+0060", "U+0060", "U+0060", "b">>
V_FencedJson == <<"U+0060", "U+0060", "U+0060", "J", "s", "o", "n", "!">>

EventFields == <<K_type, K_title, K_time, K_location, K_notes>>
FullEvent ==
    K_type :> JStr(V_Exam) @@ K_title :> JStr(V_Mid) @@ K_time :> JStr(V_Ten)
    @@ K_location :> JStr(V_R5) @@ K_notes :> JStr(V_Bring)

Without(m, key) == [k \in DOMAIN m \ {key} |-> m[k]]

\* Event records: complete, with one field absent, with one field empty,
\* with no field at all.
EventPool ==
    {JObj(FullEvent), JObj(EmptyMap)}
    \cup {JObj(Without(FullEvent, EventFields[i])) : i \in 1..5}
    \cup {JObj([FullEvent EXCEPT ![EventFields[i]] = JStr(<<>>)]) : i \in 1..5}

\* JSON text of a value, as the service would write it.  The strings of
\* the inputs hold no quote, backslash or control character.
KeyOrder == EventFields \o <<K_length>>

RECURSIVE Stringify(_)
RECURSIVE StringifyElems(_, _)
RECURSIVE StringifyMembers(_, _, _)
Stringify(v) ==
    CASE v.t = "null" -> S_null
      [] v.t = "bool" -> IF v.b THEN S_true ELSE S_false
      [] v.t = "num" -> NumToStr(v.n)
      [] v.t = "str" -> <<"\"">> \o v.s \o <<"\"">>
      [] v.t = "arr" -> <<"[">> \o StringifyElems(v.a, 1) \o <<"]">>
      [] v.t = "obj" -> <<"{">> \o StringifyMembers(v.m, 1, TRUE) \o <<"}">>

StringifyElems(a, i) ==
    IF i > Len(a) THEN <<>>
    ELSE (IF i > 1 THEN <<",", " ">> ELSE <<>>)
         \o Stringify(a[i]) \o StringifyElems(a, i + 1)

StringifyMembers(m, i, first) ==
    IF i > Len(KeyOrder) THEN <<>>
    ELSE IF KeyOrder[i] \notin DOMAIN m THEN StringifyMembers(m, i + 1, first)
    ELSE (IF first THEN <<>> ELSE <<",">>)
         \o <<"\"">> \o KeyOrder[i] \o <<"\"", ":">> \o Stringify(m[KeyOrder[i]])
         \o StringifyMembers(m, i + 1, FALSE)

\* Completion texts that are not JSON.
G_Prose == <<"N", "o", " ", "e", "v", "e", "n", "t", "s", ".">>
G_Cut == <<"[", "{", "\"", "t", "y", "p", "e", "\"", ":">>

NL == <<"\n">>
OpenFences ==
    { FENCE_JSON \o NL,
      <<"U+0060", "U+0060", "U+0060", "J", "S", "O", "N">> \o NL,
      <<"U+0060", "U+0060", "U+0060", "J", "s", "o", "n">> \o NL,
      FENCE \o NL }
CloseFences == { NL \o FENCE, NL \o FENCE \o NL }

\* A completion: the text, and how it was put together (the value whose
\* JSON text is enclosed, if the enclosed text is JSON at all).
Completion(open, body, close, isJson, v) ==
    [text |-> open \o body \o close, open |-> open, close |-> close,
     isJson |-> isJson, enclosed |-> v]

JsonCompletions(values, opens, closes) ==
    { Completion(o, Stringify(v), c, TRUE, v) :
        v \in values, o \in opens, c \in closes }

TextCompletions(bodies, opens, closes) ==
    { Completion(o, b, c, FALSE, JUndef) : b \in bodies, o \in opens, c \in closes }

\* The inputs of extractEvents: JSON values and other text, bare or fenced.
ExtractValues ==
    { JArr(<<>>), JArr(<<JObj(FullEvent)>>), JArr(<<JObj(EmptyMap)>>),
      JArr(<<JObj(FullEvent), JObj(Without(FullEvent, K_title))>>),
      JArr(<<JObj([FullEvent EXCEPT ![K_notes] = JStr(V_Fenced)])>>),
      JArr(<<JObj([FullEvent EXCEPT ![K_title] = JStr(V_FencedJson)])>>),
      JArr(<<JNull>>), JArr(<<JNum(7)>>),
      JNull, JNum(0), JNum(5), JBool(TRUE), JStr(V_Mid),
      JObj(EmptyMap), JObj(K_length :> JNum(0)) }

ExtractCompletions ==
    JsonCompletions(ExtractValues, OpenFences \cup {<<>>}, CloseFences \cup {<<>>})
    \cup TextCompletions({G_Prose, G_Cut}, OpenFences \cup {<<>>},
                         CloseFences \cup {<<>>})

\* The completions the service answers a run with.
ServiceCompletions ==
    JsonCompletions({JArr(<<JObj(FullEvent)>>)}, {FENCE_JSON \o NL}, {NL \o FENCE})
    \cup JsonCompletions({JArr(<<>>), JNull, JObj(EmptyMap), JArr(<<JNull>>)},
                         {<<>>}, {<<>>})
    \cup TextCompletions({G_Prose}, {<<>>}, {<<>>})

\* The inputs of formatSummary: sequences of event records.
FormatInputs ==
    { JArr(a) : a \in UNION { [1..n -> EventPool] : n \in 0..MaxEvents } }

\* The instants and zones of the day window: some minutes of the days that
\* follow 2024-02-28, and of those that follow 2024-12-30.
MinutesOfDay == {0, 90, 329, 330, 420, 1139, 1140, 1439}
WindowInstants ==
    { (d0 + k) * 1440 + m :
        d0 \in {DaysFromCivil(2024, 2, 28), DaysFromCivil(2024, 12, 30)},
        k \in 0..MaxDays, m \in MinutesOfDay }
ZoneOffsets == {-480, -300, 0, 330, 540}

(***************************************************************************)
(* State.                                                                  *)
(***************************************************************************)
VARIABLES
    runs,        \* each run of runDailyCheck: its position and its locals
    tokenFile,   \* the file at TOKEN_PATH
    credsOk,     \* whether the file at CREDENTIALS_PATH can be read and parsed
    mailbox,     \* what the mail provider holds for the query
    now,         \* the wall clock
    tz,          \* the host's zone, minutes east of UTC
    call,        \* a direct call of one function: its name and arguments
    ret          \* the value that call returned

vars == <<runs, tokenFile, credsOk, mailbox, now, tz, call, ret>>

NoToken == [by |-> -2]
StoredToken == [by |-> -1]
TokenOf(r) == [by |-> r]
NoFile == [exists |-> FALSE, content |-> NoToken]
NoWindow == [after |-> <<>>, before |-> <<>>]
NoCall == [fn |-> "none"]

InitRun ==
    [pc |-> "idle", failedAt |-> "none",
     tokenSeen |-> "unchecked", auth |-> NoToken, urlPrinted |-> FALSE,
     asked |-> FALSE, exchangeCalls |-> 0, wroteToken |-> FALSE,
     q |-> NoWindow, listCalls |-> 0, getCalls |-> 0, emails |-> <<>>,
     genCalls |-> 0, extracted |-> FALSE, text |-> <<>>, events |-> JUndef,
     caught |-> FALSE, summary |-> <<>>, sendCalls |-> 0, sentBody |-> <<>>,
     log |-> <<>>]

\* A rejection that is swallowed: the step is noted, the run waits on.
failButContinue(rec, step) == [rec EXCEPT !.failedAt = step]

\* An uncaught rejection ends the run where it is.
fail(rec, step) == [rec EXCEPT !.pc = "failed", !.failedAt = step]

(***************************************************************************)
(* getTodaysEmails (lines 77-117).                                         *)
(***************************************************************************)
\* Lines 78-91: the window is computed and messages.list is called.
getTodaysEmails(rec) ==
    [rec EXCEPT !.q = dayWindow(now, tz), !.listCalls = @ + 1,
                !.pc = "awaitList"]

\* Lines 97-100: messages.get is called for the next identifier.
getMessage(rec) == [rec EXCEPT !.getCalls = @ + 1, !.pc = "awaitGet"]

\* Lines 102-110: the body data of a payload.
IsPlainWithData(p) == p.mimeType = "text/plain" /\ p.data # ""

bodyData(payload) ==
    IF payload.hasParts
    THEN IF \E i \in 1..Len(payload.parts) : IsPlainWithData(payload.parts[i])
         THEN payload.parts[CHOOSE i \in 1..Len(payload.parts) :
                  /\ IsPlainWithData(payload.parts[i])
                  /\ \A j \in 1..(i - 1) : ~IsPlainWithData(payload.parts[j])].data
         ELSE ""
    ELSE payload.data

(***************************************************************************)
(* runDailyCheck (lines 166-190), from the point where extractEvents has   *)
(* the completion text: lines 135-144 and 175-189.                         *)
(***************************************************************************)
\* The test of line 180 written events.length >= 0.
lengthNotNegative(events) ==
    LET l == GetProp(events, K_length) IN l.t = "num" /\ l.n >= 0

\* events.length > 0, for the values that reach line 180.
lengthPositive(events) ==
    LET l == GetProp(events, K_length) IN l.t = "num" /\ l.n > 0

\* Lines 181-185: messages.create is called with the summary as the body.
sendSummary(rec) ==
    [rec EXCEPT !.sendCalls = @ + 1, !.sentBody = rec.summary,
                !.pc = "awaitSend"]

\* What extractEvents and formatSummary give for each completion of the
\* service.
Extracted == [c \in ServiceCompletions |-> extractEvents(c.text)]
Formatted == [c \in ServiceCompletions |-> formatSummary(Extracted[c].events)]

afterCompletion(rec, c) ==
    LET e == Extracted[c]
        f == Formatted[c]
        r1 == [rec EXCEPT !.extracted = TRUE, !.text = c.text,
                          !.events = e.events, !.caught = e.caught,
                          !.log = IF e.caught THEN Append(@, "parseFailed") ELSE @]
        r2 == [r1 EXCEPT !.summary = f.summary,
                         !.log = @ \o <<"summary", "rawJson">>]
    IN  IF f.thrown THEN fail(r1, "format")
        ELSE IF ~Readable(e.events) THEN fail(r2, "length")
        ELSE IF lengthPositive(e.events) THEN sendSummary(r2)
        ELSE [r2 EXCEPT !.log = Append(@, "noEvents"), !.pc = "done"]

\* Lines 122-132: the prompt is built and generateContent is called.
generateContent(rec) == [rec EXCEPT !.genCalls = @ + 1, !.pc = "awaitGen"]

\* runDailyCheck without the early return of lines 169-172.
afterEmailsNoEarlyReturn(rec) == generateContent(rec)

\* Lines 169-174: no e-mail ends the run, else extraction starts.
afterEmails(rec) ==
    IF Len(rec.emails) = 0
    THEN [rec EXCEPT !.log = Append(@, "noEmails"), !.pc = "done"]
    ELSE generateContent(rec)

(***************************************************************************)
(* authorize (lines 29-46) and getNewToken (lines 48-72).                  *)
(***************************************************************************)
\* Lines 49-61: the URL is printed and the code is asked for.
getNewToken(rec) ==
    [rec EXCEPT !.urlPrinted = TRUE, !.asked = TRUE,
                !.log = Append(@, "authUrl"), !.pc = "awaitCode"]

\* authorize without the return of line 42: the stored token is loaded and
\* a new one is asked for all the same.
authorizeNoReturn(rec) ==
    IF ~credsOk THEN fail(rec, "credentials")
    ELSE IF tokenFile.exists
    THEN getNewToken([rec EXCEPT !.tokenSeen = "yes",
                                 !.auth = tokenFile.content])
    ELSE getNewToken([rec EXCEPT !.tokenSeen = "no"])

authorize(rec) ==
    IF ~credsOk THEN fail(rec, "credentials")
    ELSE IF tokenFile.exists
    THEN getTodaysEmails([rec EXCEPT !.tokenSeen = "yes",
                                     !.auth = tokenFile.content])
    ELSE getNewToken([rec EXCEPT !.tokenSeen = "no"])

\* Line 66: fs.writeFileSync(TOKEN_PATH, JSON.stringify(token)).
writeToken(file, token) == [exists |-> TRUE, content |-> token]

\* Lines 65-68: the exchange succeeded.
tokenReceived(rec, token) ==
    getTodaysEmails([rec EXCEPT !.auth = token, !.wroteToken = TRUE,
                                !.log = Append(@, "tokenStored")])

(***************************************************************************)
(* The runs.  Each action is one turn of the event loop: the code from one *)
(* callback or resumed await up to the next call that suspends the run.    *)
(* An await of an already settled promise does not let another run's       *)
(* callback in, so authorize's return with a stored token and the listing  *)
(* call that follows are one turn.                                         *)
(***************************************************************************)
\* Line 199: the process starts a run at once.
Startup ==
    /\ runs[0].pc = "idle"
    /\ runs' = [runs EXCEPT ![0] = authorize(@)]
    /\ UNCHANGED <<tokenFile, credsOk, mailbox, now, tz, call, ret>>

\* Lines 193-196: the daily trigger logs and starts a run, whatever the
\* earlier runs are doing.
Trigger(r) ==
    /\ r > 0
    /\ runs[r].pc = "idle"
    /\ runs[r - 1].pc # "idle"
    /\ runs' = [runs EXCEPT ![r] = authorize([@ EXCEPT !.log = <<"trigger">>])]
    /\ UNCHANGED <<tokenFile, credsOk, mailbox, now, tz, call, ret>>

\* Lines 61-63: the operator entered a code; the exchange is requested.
CodeEntered(r) ==
    /\ runs[r].pc = "awaitCode"
    /\ runs' = [runs EXCEPT ![r] = [@ EXCEPT !.exchangeCalls = @ + 1,
                                             !.pc = "awaitToken"]]
    /\ UNCHANGED <<tokenFile, credsOk, mailbox, now, tz, call, ret>>

\* Lines 63-69: the exchange answered, with an error or with a token.
TokenReply(r) ==
    /\ runs[r].pc = "awaitToken"
    /\ \E ok \in BOOLEAN :
          /\ runs' = [runs EXCEPT ![r] =
                        IF ok THEN tokenReceived(@, TokenOf(r))
                        ELSE fail(@, "exchange")]
          /\ tokenFile' = IF ok THEN writeToken(tokenFile, TokenOf(r))
                          ELSE tokenFile
    /\ UNCHANGED <<credsOk, mailbox, now, tz, call, ret>>

\* Lines 87-100 and 169-172: messages.list answered.
ListReply(r) ==
    /\ runs[r].pc = "awaitList"
    /\ \E ok \in BOOLEAN :
          runs' = [runs EXCEPT ![r] =
                     IF ~ok THEN fail(@, "list")
                     ELSE IF ~mailbox.listed THEN afterEmails(@)
                     ELSE IF Len(mailbox.msgs) = 0 THEN afterEmails(@)
                     ELSE getMessage(@)]
    /\ UNCHANGED <<tokenFile, credsOk, mailbox, now, tz, call, ret>>

\* Lines 97-116: messages.get answered for the next identifier.
GetReply(r) ==
    /\ runs[r].pc = "awaitGet"
    /\ \E ok \in BOOLEAN :
          runs' = [runs EXCEPT ![r] =
                     IF ~ok THEN fail(@, "get")
                     ELSE LET payload == mailbox.msgs[Len(@.emails) + 1]
                              body == base64Decode(bodyData(payload))
                              rec == [@ EXCEPT !.emails = Append(@, body)]
                          IN  IF Len(rec.emails) < Len(mailbox.msgs)
                              THEN getMessage(rec)
                              ELSE afterEmails(rec)]
    /\ UNCHANGED <<tokenFile, credsOk, mailbox, now, tz, call, ret>>

\* Lines 132-144 and 175-189: generateContent answered.
GenReply(r) ==
    /\ runs[r].pc = "awaitGen"
    /\ \E ok \in BOOLEAN :
          IF ok
          THEN \E c \in ServiceCompletions :
                  runs' = [runs EXCEPT ![r] = afterCompletion(@, c)]
          ELSE runs' = [runs EXCEPT ![r] = fail(@, "generate")]
    /\ UNCHANGED <<tokenFile, credsOk, mailbox, now, tz, call, ret>>

\* Lines 181-186: messages.create answered.
SendReply(r) ==
    /\ runs[r].pc = "awaitSend"
    /\ \E ok \in BOOLEAN :
          runs' = [runs EXCEPT ![r] =
                     IF ok THEN [@ EXCEPT !.log = Append(@, "sent"),
                                          !.pc = "done"]
                     ELSE fail(@, "send")]
    /\ UNCHANGED <<tokenFile, credsOk, mailbox, now, tz, call, ret>>

Init ==
    /\ runs = [r \in RunIds |-> InitRun]
    /\ tokenFile \in {NoFile, writeToken(NoFile, StoredToken)}
    /\ credsOk \in BOOLEAN
    /\ mailbox \in Mailboxes
    /\ now = DaysFromCivil(2024, 2, 29) * 1440 + 420
    /\ tz = 330
    /\ call = NoCall
    /\ ret = NoCall

Next ==
    \/ Startup
    \/ \E r \in RunIds : Trigger(r)
    \/ \E r \in RunIds : CodeEntered(r)
    \/ \E r \in RunIds : TokenReply(r)
    \/ \E r \in RunIds : ListReply(r)
    \/ \E r \in RunIds : GetReply(r)
    \/ \E r \in RunIds : GenReply(r)
    \/ \E r \in RunIds : SendReply(r)

Spec == Init /\ [][Next]_vars

(***************************************************************************)
(* Direct calls of extractEvents' parsing, formatSummary and the day       *)
(* window, each on one input drawn from its input set.                     *)
(***************************************************************************)
Idle ==
    /\ runs = [r \in RunIds |-> InitRun]
    /\ tokenFile = NoFile
    /\ credsOk = TRUE
    /\ mailbox = [listed |-> FALSE, msgs |-> <<>>]

ExtractCall ==
    /\ call.fn = "extractEvents"
    /\ ret.fn = "none"
    /\ ret' = [fn |-> "extractEvents", out |-> extractEvents(call.completion.text)]
    /\ UNCHANGED <<runs, tokenFile, credsOk, mailbox, now, tz, call>>

InitExtract ==
    /\ Idle
    /\ now = 0
    /\ tz = 0
    /\ call \in { [fn |-> "extractEvents", completion |-> c] :
                    c \in ExtractCompletions }
    /\ ret = NoCall

SpecExtract == InitExtract /\ [][ExtractCall]_vars

FormatCall ==
    /\ call.fn = "formatSummary"
    /\ ret.fn = "none"
    /\ ret' = [fn |-> "formatSummary", out |-> formatSummary(call.events)]
    /\ UNCHANGED <<runs, tokenFile, credsOk, mailbox, now, tz, call>>

InitFormat ==
    /\ Idle
    /\ now = 0
    /\ tz = 0
    /\ call \in { [fn |-> "formatSummary", events |-> e] : e \in FormatInputs }
    /\ ret = NoCall

SpecFormat == InitFormat /\ [][FormatCall]_vars

WindowCall ==
    /\ call.fn = "dayWindow"
    /\ ret.fn = "none"
    /\ ret' = [fn |-> "dayWindow", out |-> dayWindow(now, tz)]
    /\ UNCHANGED <<runs, tokenFile, credsOk, mailbox, now, tz, call>>

InitWindow ==
    /\ Idle
    /\ now \in WindowInstants
    /\ tz \in ZoneOffsets
    /\ call = [fn |-> "dayWindow"]
    /\ ret = NoCall

SpecWindow == InitWindow /\ [][WindowCall]_vars

(***************************************************************************)
(* Properties.                                                             *)
(***************************************************************************)
\* A sequence of event records: an array whose elements are objects.
IsEventSeq(v) == v.t = "arr" /\ \A i \in 1..Len(v.a) : v.a[i].t = "obj"

LastLog(x) == IF x.log = <<>> THEN "nothing" ELSE x.log[Len(x.log)]

\* C1: in a run whose extraction gave a sequence of event records, the
\* messaging provider's send is called exactly once, with formatSummary of
\* those records as the body, if the sequence is non-empty, and is not
\* called if it is empty.
C1_SendOnceIffEvents ==
    \A r \in RunIds :
       LET x == runs[r]
       IN  (x.extracted /\ IsEventSeq(x.events)) =>
              IF Len(x.events.a) > 0
              THEN /\ x.sendCalls = 1
                   /\ x.sentBody = formatSummary(x.events).summary
              ELSE x.sendCalls = 0

C1_Witness ==
    \E r \in RunIds :
       /\ runs[r].pc = "done"
       /\ runs[r].extracted
       /\ IsEventSeq(runs[r].events)
       /\ Len(runs[r].events.a) > 0
       /\ runs[r].sendCalls = 1

\* The listing answered run r, and reported no matching message.
ListedNothing(r) ==
    /\ runs[r].listCalls = 1
    /\ runs[r].pc # "awaitList"
    /\ runs[r].failedAt # "list"
    /\ ~mailbox.listed \/ Len(mailbox.msgs) = 0

\* C2: when the listing reports no matching message, getTodaysEmails
\* returns the empty sequence without a get call, and the run ends with the
\* "no emails" message, having called neither the generative-text service
\* nor the messaging provider.
C2_NoMessagesEndsRun ==
    \A r \in RunIds :
       ListedNothing(r) =>
          /\ runs[r].emails = <<>>
          /\ runs[r].getCalls = 0
          /\ runs[r].pc = "done"
          /\ LastLog(runs[r]) = "noEmails"
          /\ runs[r].genCalls = 0
          /\ runs[r].sendCalls = 0

C2_Witness ==
    \E r \in RunIds :
       /\ ~mailbox.listed
       /\ ListedNothing(r)
       /\ runs[r].pc = "done"

\* Whether JSON.parse accepts the cleaned text of a completion.
CompletionParses ==
    [c \in ServiceCompletions |-> JSONparse(cleanText(c.text)).ok]

ParseFailed(text) ==
    \E c \in ServiceCompletions : c.text = text /\ ~CompletionParses[c]

\* C3: when the completion does not parse as JSON, extractEvents returns
\* the empty sequence and raises nothing; the run goes on to the "no
\* events" summary, sends no message and completes.
C3_ParseFailureRecovered ==
    \A r \in RunIds :
       (runs[r].extracted /\ ParseFailed(runs[r].text)) =>
          /\ runs[r].events = JArr(<<>>)
          /\ runs[r].caught
          /\ runs[r].summary = NO_EVENTS_MSG
          /\ LastLog(runs[r]) = "noEvents"
          /\ runs[r].sendCalls = 0
          /\ runs[r].pc = "done"
          /\ runs[r].failedAt = "none"

C3_Witness ==
    \E r \in RunIds :
       /\ runs[r].extracted
       /\ ParseFailed(runs[r].text)
       /\ runs[r].pc = "done"

\* C4: whatever the completion text, extractEvents returns a sequence of
\* event records, and neither formatSummary nor the events.length test
\* fails on it.
C4_ExtractorGivesSequence ==
    \A r \in RunIds :
       runs[r].extracted =>
          /\ IsEventSeq(runs[r].events)
          /\ runs[r].failedAt \notin {"format", "length"}

\* Run r starts in this step.
Starts(r) == runs[r].pc = "idle" /\ runs'[r].pc # "idle"

Prompted(x) == x.urlPrinted \/ x.asked \/ x.exchangeCalls > 0

\* C5 as claimed: a run that starts while a token file exists comes back
\* from authorize with a handle that holds the stored token and goes on to
\* the listing, without the URL, the question or the exchange.
C5_TokenAlwaysGivesHandle ==
    [][\A r \in RunIds :
          (Starts(r) /\ tokenFile.exists) =>
             /\ ~Prompted(runs'[r])
             /\ runs'[r].auth = tokenFile.content
             /\ runs'[r].pc = "awaitList"]_vars

\* C5, amended: the same, provided the client-secret file loads; if it
\* does not, authorize fails before it looks at the token file, and still
\* asks nothing.  A token file stays once it is there, and a run that
\* loaded it never asks for a code or writes the file.
C5_TokenGivesHandleIfCredentialsLoad ==
    [][/\ \A r \in RunIds :
             (Starts(r) /\ tokenFile.exists) =>
                /\ ~Prompted(runs'[r])
                /\ credsOk => /\ runs'[r].auth = tokenFile.content
                              /\ runs'[r].pc = "awaitList"
                /\ ~credsOk => runs'[r].failedAt = "credentials"
       /\ tokenFile.exists => tokenFile'.exists
       /\ \A r \in RunIds :
             runs'[r].tokenSeen = "yes" =>
                ~Prompted(runs'[r]) /\ ~runs'[r].wroteToken]_vars

\* A run started after another run had stored its token, and loaded it.
C5_Witness ==
    \E r, w \in RunIds :
       /\ runs[w].wroteToken
       /\ runs[r].tokenSeen = "yes"
       /\ runs[r].auth = TokenOf(w)
       /\ runs[r].listCalls = 1

NoCallsFrom(x, steps) ==
    /\ "token" \in steps => ~x.wroteToken
    /\ "list" \in steps => x.listCalls = 0
    /\ "get" \in steps => x.getCalls = 0
    /\ "generate" \in steps => x.genCalls = 0 /\ ~x.extracted
    /\ "send" \in steps => x.sendCalls = 0

\* C6: a failed external call ends the run there: the call was made once
\* (a failed get is the one after the bodies fetched so far) and never
\* again, and no later step of the run has happened or happens.
C6_FailureAbortsRun ==
    \A r \in RunIds :
       LET x == runs[r]
       IN  /\ x.pc = "failed" <=> x.failedAt # "none"
           /\ x.failedAt = "exchange" =>
                 /\ x.exchangeCalls = 1
                 /\ NoCallsFrom(x, {"token", "list", "get", "generate", "send"})
           /\ x.failedAt = "list" =>
                 /\ x.listCalls = 1
                 /\ NoCallsFrom(x, {"get", "generate", "send"})
           /\ x.failedAt = "get" =>
                 /\ x.listCalls = 1
                 /\ x.getCalls = Len(x.emails) + 1
                 /\ NoCallsFrom(x, {"generate", "send"})
           /\ x.failedAt = "generate" =>
                 /\ x.genCalls = 1
                 /\ NoCallsFrom(x, {"send"})
           /\ x.failedAt = "send" =>
                 /\ x.sendCalls = 1
                 /\ LastLog(x) # "sent"

\* One run failed at the exchange and another at the send.
C6_Witness ==
    \E r, w \in RunIds :
       /\ runs[r].failedAt = "exchange"
       /\ runs[w].failedAt = "send"

\* C10 as claimed: the token file is written only when none exists.
C10_NeverOverwritten ==
    [][tokenFile' # tokenFile => ~tokenFile.exists]_vars

\* C10, amended: the token file is written only by a run that found no
\* token file when it called authorize and whose exchange has just
\* answered; a run that found one never writes.  (The file may have been
\* written by another such run in between, and is then overwritten.)
C10_WrittenOnlyByFirstTimeAuthorization ==
    [][tokenFile' # tokenFile =>
          \E r \in RunIds :
             /\ runs[r].pc = "awaitToken"
             /\ runs[r].tokenSeen = "no"
             /\ ~runs[r].wroteToken /\ runs'[r].wroteToken
             /\ tokenFile' = [exists |-> TRUE, content |-> TokenOf(r)]
             /\ \A w \in RunIds \ {r} : runs'[w] = runs[w]]_vars

\* Two runs each found no token file and each wrote one.
C10_Witness ==
    \E r, w \in RunIds :
       /\ r # w
       /\ runs[r].wroteToken /\ runs[r].tokenSeen = "no"
       /\ runs[w].wroteToken /\ runs[w].tokenSeen = "no"
       /\ tokenFile.exists

\* C7: for a completion that is a JSON array between an opening fence
\* marker and a closing one, extractEvents returns an array equal to the
\* enclosed array, also when strings inside it hold fence characters.
C7_FencedArrayRecovered ==
    (/\ ret.fn = "extractEvents"
     /\ call.completion.isJson
     /\ call.completion.enclosed.t = "arr"
     /\ call.completion.open \in OpenFences
     /\ call.completion.close \in CloseFences) =>
       /\ ~ret.out.caught
       /\ ret.out.events = call.completion.enclosed

\* YYYY-MM-DD of a civil date.
DateString(c) == Pad4(c.y) \o <<"-">> \o Pad2(c.m) \o <<"-">> \o Pad2(c.d)

\* The day number of the host's local calendar date at instant t.
LocalDay(t, off) == (t + off) \div 1440

\* C8: at every instant and zone offset, `after` is the host's local
\* calendar date and `before` the calendar date one day later.
C8_WindowIsLocalDay ==
    ret.fn = "dayWindow" =>
       /\ ret.out.after = DateString(CivilFromDays(LocalDay(now, tz)))
       /\ ret.out.before = DateString(CivilFromDays(LocalDay(now, tz) + 1))

\* The fixed placeholders.
Placeholders == {NO_TITLE, NOT_SPECIFIED, NONE}

\* A field that is absent or empty.
Missing(ev, key) == key \notin DOMAIN ev.m \/ ev.m[key] = JStr(<<>>)

Shown(ev, key, placeholder) ==
    IF Missing(ev, key) THEN placeholder ELSE ev.m[key].s

\* The block of record ev, numbered n, with p shown for a missing type.
ClaimedBlock(ev, n, p) ==
    <<"\n">> \o NatToStr(n) \o <<".", " ">> \o Shown(ev, K_type, p) \o T_DASH
    \o Shown(ev, K_title, NO_TITLE)
    \o T_TIME \o Shown(ev, K_time, NOT_SPECIFIED)
    \o T_LOCATION \o Shown(ev, K_location, NOT_SPECIFIED)
    \o T_NOTES \o Shown(ev, K_notes, NONE) \o <<"\n">>

RECURSIVE ClaimedBlocks(_, _, _)
ClaimedBlocks(a, i, ps) ==
    IF i > Len(a) THEN <<>>
    ELSE ClaimedBlock(a[i], i, ps[i]) \o ClaimedBlocks(a, i + 1, ps)

\* C9: formatSummary returns the fixed message for the empty sequence, and
\* for a non-empty one the header and one block per record, in order and
\* numbered from 1, where every absent or empty field, the type included,
\* shows as one of the fixed placeholders.
C9_MissingFieldsShowPlaceholders ==
    ret.fn = "formatSummary" =>
       /\ ~ret.out.thrown
       /\ IF Len(call.events.a) = 0
          THEN ret.out.summary = NO_EVENTS_MSG
          ELSE \E ps \in [1..Len(call.events.a) -> Placeholders] :
                  ret.out.summary = HEADER \o ClaimedBlocks(call.events.a, 1, ps)

====
